---- MODULE Spec2Model ----
(***************************************************************************)
(* Model of package buuid (src/main.go): random strings over character     *)
(* sets, ranged integers and floats, and time based identifiers, with the  *)
(* mutex guarded fallback source defaultRand.                              *)
(*                                                                         *)
(* Characters are ASCII codes.  Go's int, int64 and uint64 are WordBits    *)
(* wide two's complement words (a scaled down 64), so that wrap-around of  *)
(* max-min+1 is reachable.  Every value read from crypto/rand or from the  *)
(* clock is an input drawn from a small set of representatives.            *)
(***************************************************************************)
EXTENDS Integers, Sequences, FiniteSets, TLC

VARIABLES pc, call, loc, mu, ret

vars == <<pc, call, loc, mu, ret>>

-----------------------------------------------------------------------------
(* Bounds *)

WordBits == 28
NumProcs == 2
MaxMilli == 3

MaxInt == 2 ^ (WordBits - 1) - 1
MinInt == -MaxInt - 1
MaxUint == 2 * MaxInt + 1

Procs == 1 .. NumProcs
SeqProcs == {1}
NoProc == 0

-----------------------------------------------------------------------------
(* Machine arithmetic *)

\* Two's complement wrap of the exact result of one int operation.
Wrap(x) ==
    IF x > MaxInt THEN x - MaxUint - 1
    ELSE IF x < MinInt THEN x + MaxUint + 1
    ELSE x

\* Go's % on signed integers: the remainder takes the sign of the dividend.
GoRem(a, b) ==
    LET m == IF b < 0 THEN -b ELSE b
    IN IF a >= 0 THEN a % m ELSE -((-a) % m)

\* int64(u) of an unsigned word u.
ToInt64(u) == IF u > MaxInt THEN u - MaxUint - 1 ELSE u

\* x & (1<<63 - 1) on an unsigned word: the top bit is cleared.
Mask63(u) == u % (MaxInt + 1)

RECURSIVE Pow10(_)
\* big.Int Exp(10, d): exact.
Pow10(d) == IF d <= 0 THEN 1 ELSE 10 * Pow10(d - 1)

-----------------------------------------------------------------------------
(* Constants and character sets *)

R_NUM == 1
R_UPPER == 2
R_LOWER == 4
R_All == 7
DefaultLength == 6
DefaultMax == 100
IDScale == 1000000
SeriesRandMax == 999999

numChars == <<48, 49, 50, 51, 52, 53, 54, 55, 56, 57>>
upperChars ==
    <<65, 66, 67, 68, 69, 70, 71, 72, 73, 74, 75, 76, 77,
      78, 79, 80, 81, 82, 83, 84, 85, 86, 87, 88, 89, 90>>
lowerChars ==
    <<97, 98, 99, 100, 101, 102, 103, 104, 105, 106, 107, 108, 109,
      110, 111, 112, 113, 114, 115, 116, 117, 118, 119, 120, 121, 122>>
allChars ==
    <<48, 49, 50, 51, 52, 53, 54, 55, 56, 57,
      65, 66, 67, 68, 69, 70, 71, 72, 73, 74, 75, 76, 77,
      78, 79, 80, 81, 82, 83, 84, 85, 86, 87, 88, 89, 90,
      97, 98, 99, 100, 101, 102, 103, 104, 105, 106, 107, 108, 109,
      110, 111, 112, 113, 114, 115, 116, 117, 118, 119, 120, 121, 122>>

\* nil entries are the empty sequence; index kind is 0-based in the source.
charSets == <<<< >>, numChars, upperChars, << >>, lowerChars, << >>, << >>, allChars>>

\* kind & bit # 0, for a single-bit mask and 0 <= kind.
HasBit(kind, bit) == (kind \div bit) % 2 = 1

-----------------------------------------------------------------------------
(* Bytes: argument resolution *)

NormKind(kind) == IF kind > 7 \/ kind < 1 THEN R_All ELSE kind

\* Variant: a supplied length of 0 is taken as given.
ResolveLengthZeroKept(bytesLen) ==
    IF Len(bytesLen) > 0 /\ bytesLen[1] >= 0 THEN bytesLen[1] ELSE DefaultLength

ResolveLength(bytesLen) ==
    IF Len(bytesLen) > 0 /\ bytesLen[1] > 0 THEN bytesLen[1] ELSE DefaultLength

\* Variant: the lowercase letters are appended before the uppercase ones.
CombinedLowerFirst(kind) ==
    (IF HasBit(kind, R_NUM) THEN numChars ELSE << >>)
    \o (IF HasBit(kind, R_LOWER) THEN lowerChars ELSE << >>)
    \o (IF HasBit(kind, R_UPPER) THEN upperChars ELSE << >>)

Combined(kind) ==
    (IF HasBit(kind, R_NUM) THEN numChars ELSE << >>)
    \o (IF HasBit(kind, R_UPPER) THEN upperChars ELSE << >>)
    \o (IF HasBit(kind, R_LOWER) THEN lowerChars ELSE << >>)

\* kind is already normalised to 1..7.
ResolveChars(kind) ==
    LET chars == charSets[kind + 1]
    IN IF chars = << >> THEN Combined(kind) ELSE chars

-----------------------------------------------------------------------------
(* State *)

NoCall == [op |-> "none", kind |-> 0, size |-> << >>, rangeSize |-> << >>, dpLength |-> 0]

NoTime == [year |-> 0, month |-> 0, day |-> 0, hour |-> 0, minute |-> 0,
           second |-> 0, nano |-> 0]

InitLoc ==
    [kind |-> 0, length |-> 0, chars |-> << >>, result |-> << >>,
     min |-> 0, max |-> 0, dpmax |-> 1, dpn |-> 0,
     ms |-> 0, now |-> 0, t |-> NoTime, buf |-> << >>, random |-> 0,
     val |-> 0, fb |-> 0, cont |-> "none"]

NoRet == [int |-> 0, bytes |-> << >>, num |-> 0, den |-> 1]

Init ==
    /\ pc = [p \in Procs |-> "idle"]
    /\ call = [p \in Procs |-> NoCall]
    /\ loc = [p \in Procs |-> InitLoc]
    /\ mu = NoProc
    /\ ret = [p \in Procs |-> NoRet]

\* An unrecovered panic ends the whole process: no goroutine runs on.
Crashed == \E p \in Procs : pc[p] = "panic"

CanCall(p) == ~Crashed /\ pc[p] = "idle"

At(p, label) == ~Crashed /\ pc[p] = label

\* The caller has used the value returned to it and is ready for its next call.
Finish(p) ==
    /\ At(p, "done")
    /\ pc' = [pc EXCEPT ![p] = "idle"]
    /\ call' = [call EXCEPT ![p] = NoCall]
    /\ loc' = [loc EXCEPT ![p] = InitLoc]
    /\ ret' = [ret EXCEPT ![p] = NoRet]
    /\ UNCHANGED mu

\* rand.Int(rand.Reader, k) for k > 0: a value of 0 .. k-1, here one of the
\* candidates D or the largest one.
RandInt(k, D) == {n \in D \cup {k - 1} : 0 <= n /\ n < k}

-----------------------------------------------------------------------------
(* lockedRandSource.Int63 *)

\* The caller of Int63 waits at its call site with cont = the label to resume at.
CallInt63(p, cont) ==
    /\ pc' = [pc EXCEPT ![p] = "i63_lock"]
    /\ loc' = [loc EXCEPT ![p].cont = cont]

I63Lock(p) ==
    /\ At(p, "i63_lock")
    /\ mu = NoProc
    /\ mu' = p
    /\ pc' = [pc EXCEPT ![p] = "i63_read"]
    /\ UNCHANGED <<call, loc, ret>>

\* Variant: the top bit is not cleared.
Int63ValueUnmasked(u) == ToInt64(u)

\* int64(binary.BigEndian.Uint64(b[:]) & (1<<63 - 1))
Int63Value(u) == ToInt64(Mask63(u))

\* rand.Read(b[:]) succeeds: the masked big-endian word is the result.
I63ReadOk(p, U) ==
    /\ At(p, "i63_read")
    /\ \E u \in U :
         loc' = [loc EXCEPT ![p].val = Int63Value(u)]
    /\ pc' = [pc EXCEPT ![p] = "i63_ret"]
    /\ UNCHANGED <<call, mu, ret>>

\* rand.Read(b[:]) fails: time.Now().UnixNano() is the result.
I63ReadErr(p, N) ==
    /\ At(p, "i63_read")
    /\ \E nano \in N :
         loc' = [loc EXCEPT ![p].val = nano]
    /\ pc' = [pc EXCEPT ![p] = "i63_ret"]
    /\ UNCHANGED <<call, mu, ret>>

\* Variant: Int63 returns without unlocking.
I63ReturnLocked(p) ==
    /\ At(p, "i63_ret")
    /\ loc' = [loc EXCEPT ![p].fb = loc[p].val]
    /\ pc' = [pc EXCEPT ![p] = loc[p].cont]
    /\ UNCHANGED <<call, mu, ret>>

\* The deferred r.mu.Unlock() runs and the value reaches the caller.
I63Return(p) ==
    /\ At(p, "i63_ret")
    /\ mu' = NoProc
    /\ loc' = [loc EXCEPT ![p].fb = loc[p].val]
    /\ pc' = [pc EXCEPT ![p] = loc[p].cont]
    /\ UNCHANGED <<call, ret>>

-----------------------------------------------------------------------------
(* Bytes and String *)

CallBytes(p, ops, kinds, sizes) ==
    /\ CanCall(p)
    /\ \E o \in ops, kind \in kinds, bytesLen \in sizes :
         /\ call' = [call EXCEPT ![p] =
                [NoCall EXCEPT !.op = o, !.kind = kind, !.size = bytesLen]]
         /\ loc' = [loc EXCEPT ![p] =
                [InitLoc EXCEPT !.kind = NormKind(kind),
                                !.length = ResolveLength(bytesLen),
                                !.chars = ResolveChars(NormKind(kind))]]
         /\ pc' = [pc EXCEPT ![p] =
                IF ResolveLength(bytesLen) > 0 THEN "bytes_read" ELSE "done"]
    /\ ret' = [ret EXCEPT ![p] = NoRet]
    /\ UNCHANGED mu

\* result[i] = chars[n], then the next iteration or the return.
BytesStore(p, n) ==
    LET result == Append(loc[p].result, loc[p].chars[n + 1])
    IN /\ loc' = [loc EXCEPT ![p].result = result, ![p].val = 0, ![p].fb = 0]
       /\ IF Len(result) < loc[p].length
            THEN /\ pc' = [pc EXCEPT ![p] = "bytes_read"]
                 /\ ret' = ret
            ELSE /\ pc' = [pc EXCEPT ![p] = "done"]
                 /\ ret' = [ret EXCEPT ![p] = [NoRet EXCEPT !.bytes = result]]

BytesReadChars(p) == Len(loc[p].chars)

\* rand.Int panics on an argument <= 0 before it reads anything.
BytesReadOk(p, D) ==
    /\ At(p, "bytes_read")
    /\ IF BytesReadChars(p) <= 0
         THEN /\ pc' = [pc EXCEPT ![p] = "panic"]
              /\ UNCHANGED <<loc, ret>>
         ELSE \E n \in RandInt(BytesReadChars(p), D) : BytesStore(p, n)
    /\ UNCHANGED <<call, mu>>

BytesReadErr(p) ==
    /\ At(p, "bytes_read")
    /\ BytesReadChars(p) > 0
    /\ CallInt63(p, "bytes_fb")
    /\ UNCHANGED <<call, mu, ret>>

BytesFallback(p) ==
    /\ At(p, "bytes_fb")
    /\ BytesStore(p, GoRem(loc[p].fb, ToInt64(BytesReadChars(p))))
    /\ UNCHANGED <<call, mu>>

-----------------------------------------------------------------------------
(* NewSeriesID: formatting *)

\* Go's / on signed integers truncates toward zero.
GoDiv(a, b) ==
    LET q == (IF a < 0 THEN -a ELSE a) \div (IF b < 0 THEN -b ELSE b)
    IN IF (a < 0) = (b < 0) THEN q ELSE -q

\* byte(x): the low 8 bits.
ByteOf(x) == x % 256

\* '0' + byte(x), in byte arithmetic.
Digit(x) == (48 + ByteOf(x)) % 256

RECURSIVE Pad(_, _)
\* The decimal form of n >= 0, zero-padded to at least w digits.
Pad(n, w) ==
    IF n < 10 /\ w <= 1 THEN <<Digit(n)>>
    ELSE Pad(n \div 10, w - 1) \o <<Digit(n % 10)>>

\* t.Format("20060102150405")
Format(t) ==
    Pad(t.year, 4) \o Pad(t.month, 2) \o Pad(t.day, 2)
    \o Pad(t.hour, 2) \o Pad(t.minute, 2) \o Pad(t.second, 2)

\* copy(buf[:hi], src): min(hi, len(src)) bytes go to the front of buf.
CopyTo(buf, hi, src) ==
    [i \in 1 .. Len(buf) |-> IF i <= hi /\ i <= Len(src) THEN src[i] ELSE buf[i]]

\* buf[14] .. buf[19] of the source (positions 15 .. 20 here).
MicroDigits(buf, micro) ==
    [buf EXCEPT ![15] = Digit(GoRem(GoDiv(micro, 100000), 10)),
                ![16] = Digit(GoRem(GoDiv(micro, 10000), 10)),
                ![17] = Digit(GoRem(GoDiv(micro, 1000), 10)),
                ![18] = Digit(GoRem(GoDiv(micro, 100), 10)),
                ![19] = Digit(GoRem(GoDiv(micro, 10), 10)),
                ![20] = Digit(GoRem(micro, 10))]

\* Variant: random is not divided between digits.
RandomDigitsNoShift(buf, i, random) ==
    [k \in 1 .. Len(buf) |-> IF k > i THEN Digit(GoRem(random, 10)) ELSE buf[k]]

RECURSIVE RandomDigits(_, _, _)
\* for i := 20; i < 26; i++ { buf[i] = '0' + byte(random%10); random /= 10 }
RandomDigits(buf, i, random) ==
    IF i >= 26 THEN buf
    ELSE RandomDigits([buf EXCEPT ![i + 1] = Digit(GoRem(random, 10))],
                      i + 1, GoDiv(random, 10))

\* var buf [26]byte, then the timestamp and the microseconds.
SeriesPrefix(t) ==
    MicroDigits(CopyTo([i \in 1 .. 26 |-> 0], 14, Format(t)), GoDiv(t.nano, 1000))

-----------------------------------------------------------------------------
(* Int *)

ResolveRange(rangeSize) ==
    IF Len(rangeSize) = 0 THEN [min |-> 0, max |-> DefaultMax]
    ELSE IF Len(rangeSize) = 1 THEN [min |-> 0, max |-> rangeSize[1]]
    ELSE IF rangeSize[1] > rangeSize[2]
         THEN [min |-> rangeSize[2], max |-> rangeSize[1]]
         ELSE [min |-> rangeSize[1], max |-> rangeSize[2]]

CallInt(p, ranges) ==
    /\ CanCall(p)
    /\ \E rangeSize \in ranges :
         /\ call' = [call EXCEPT ![p] =
                [NoCall EXCEPT !.op = "Int", !.rangeSize = rangeSize]]
         /\ loc' = [loc EXCEPT ![p] =
                [InitLoc EXCEPT !.min = ResolveRange(rangeSize).min,
                                !.max = ResolveRange(rangeSize).max]]
    /\ pc' = [pc EXCEPT ![p] = "int_read"]
    /\ ret' = [ret EXCEPT ![p] = NoRet]
    /\ UNCHANGED mu

\* int64(max-min+1)
IntSpan(p) == Wrap(Wrap(loc[p].max - loc[p].min) + 1)

\* Int returns v: to the caller of the package, or into NewSeriesID.
IntReturn(p, v) ==
    /\ pc' = [pc EXCEPT ![p] = "done"]
    /\ IF call[p].op = "NewSeriesID"
         THEN /\ loc' = [loc EXCEPT ![p].random = v]
              /\ ret' = [ret EXCEPT ![p] =
                    [NoRet EXCEPT !.bytes = RandomDigits(loc[p].buf, 20, v)]]
         ELSE /\ loc' = loc
              /\ ret' = [ret EXCEPT ![p] = [NoRet EXCEPT !.int = v]]

\* rand.Int panics on an argument <= 0 before it reads anything.
IntReadOk(p, D) ==
    /\ At(p, "int_read")
    /\ IF IntSpan(p) <= 0
         THEN /\ pc' = [pc EXCEPT ![p] = "panic"]
              /\ UNCHANGED <<loc, ret>>
         ELSE \E n \in RandInt(IntSpan(p), D) :
                IntReturn(p, Wrap(loc[p].min + n))
    /\ UNCHANGED <<call, mu>>

IntReadErr(p) ==
    /\ At(p, "int_read")
    /\ IntSpan(p) > 0
    /\ CallInt63(p, "int_fb")
    /\ UNCHANGED <<call, mu, ret>>

IntFallback(p) ==
    /\ At(p, "int_fb")
    /\ IntReturn(p, Wrap(loc[p].min + GoRem(loc[p].fb, IntSpan(p))))
    /\ UNCHANGED <<call, mu>>

-----------------------------------------------------------------------------
(* NewSeriesID *)

\* Up to the call Int(0, 999999); IntReturn completes the buffer.
CallNewSeriesID(p, times) ==
    /\ CanCall(p)
    /\ \E t \in times :
         loc' = [loc EXCEPT ![p] =
                [InitLoc EXCEPT !.t = t, !.buf = SeriesPrefix(t),
                                !.min = ResolveRange(<<0, SeriesRandMax>>).min,
                                !.max = ResolveRange(<<0, SeriesRandMax>>).max]]
    /\ call' = [call EXCEPT ![p] = [NoCall EXCEPT !.op = "NewSeriesID"]]
    /\ pc' = [pc EXCEPT ![p] = "int_read"]
    /\ ret' = [ret EXCEPT ![p] = NoRet]
    /\ UNCHANGED mu

-----------------------------------------------------------------------------
(* Float64 *)

CallFloat64(p, dps, ranges) ==
    /\ CanCall(p)
    /\ \E dpLength \in dps, rangeSize \in ranges :
         /\ call' = [call EXCEPT ![p] =
                [NoCall EXCEPT !.op = "Float64", !.dpLength = dpLength,
                               !.rangeSize = rangeSize]]
         /\ loc' = [loc EXCEPT ![p] =
                [InitLoc EXCEPT !.min = ResolveRange(rangeSize).min,
                                !.max = ResolveRange(rangeSize).max,
                                !.dpmax = IF dpLength > 0 THEN Pow10(dpLength) ELSE 1]]
         /\ pc' = [pc EXCEPT ![p] = IF dpLength > 0 THEN "f_dp_read" ELSE "f_int_read"]
    /\ ret' = [ret EXCEPT ![p] = NoRet]
    /\ UNCHANGED mu

\* dp = float64(n.Int64()) / float64(dpmax.Int64()), kept as the fraction dpn/dpmax.
FloatDpReadOk(p, D) ==
    /\ At(p, "f_dp_read")
    /\ \E n \in RandInt(loc[p].dpmax, D) :
         loc' = [loc EXCEPT ![p].dpn = n]
    /\ pc' = [pc EXCEPT ![p] = "f_int_read"]
    /\ UNCHANGED <<call, mu, ret>>

FloatDpReadErr(p) ==
    /\ At(p, "f_dp_read")
    /\ CallInt63(p, "f_dp_fb")
    /\ UNCHANGED <<call, mu, ret>>

FloatDpFallback(p) ==
    /\ At(p, "f_dp_fb")
    /\ loc' = [loc EXCEPT ![p].dpn = GoRem(loc[p].fb, loc[p].dpmax),
                           ![p].val = 0, ![p].fb = 0]
    /\ pc' = [pc EXCEPT ![p] = "f_int_read"]
    /\ UNCHANGED <<call, mu, ret>>

\* int64(max-min)
FloatSpan(p) == Wrap(loc[p].max - loc[p].min)

\* float64(min) + float64(intPart) + dp, as whole + num/den.
FloatReturn(p, intPart) ==
    /\ pc' = [pc EXCEPT ![p] = "done"]
    /\ UNCHANGED loc
    /\ ret' = [ret EXCEPT ![p] =
          [NoRet EXCEPT !.int = loc[p].min + intPart,
                        !.num = loc[p].dpn, !.den = loc[p].dpmax]]

\* rand.Int panics on an argument <= 0 before it reads anything.
FloatIntReadOk(p, D) ==
    /\ At(p, "f_int_read")
    /\ IF FloatSpan(p) <= 0
         THEN /\ pc' = [pc EXCEPT ![p] = "panic"]
              /\ UNCHANGED <<loc, ret>>
         ELSE \E n \in RandInt(FloatSpan(p), D) : FloatReturn(p, n)
    /\ UNCHANGED <<call, mu>>

FloatIntReadErr(p) ==
    /\ At(p, "f_int_read")
    /\ FloatSpan(p) > 0
    /\ CallInt63(p, "f_int_fb")
    /\ UNCHANGED <<call, mu, ret>>

FloatIntFallback(p) ==
    /\ At(p, "f_int_fb")
    /\ FloatReturn(p, GoRem(loc[p].fb, FloatSpan(p)))
    /\ UNCHANGED <<call, mu>>

-----------------------------------------------------------------------------
(* NewID and NewStringID *)

HexDigits == <<48, 49, 50, 51, 52, 53, 54, 55, 56, 57, 97, 98, 99, 100, 101, 102>>

RECURSIVE FormatUint(_, _)
FormatUint(n, base) ==
    IF n < base THEN <<HexDigits[n + 1]>>
    ELSE FormatUint(n \div base, base) \o <<HexDigits[(n % base) + 1]>>

\* strconv.FormatInt(i, base): a minus sign (45), then the magnitude.
FormatInt(i, base) ==
    IF i < 0 THEN <<45>> \o FormatUint(-i, base) ELSE FormatUint(i, base)

\* Variant: the milliseconds are scaled by 1000.
NowBaseMicro(ms) == Wrap(ms * 1000)

\* time.Now().UnixMilli() * 1000000
NowBase(ms) == Wrap(ms * IDScale)

CallNewID(p, ops, millis) ==
    /\ CanCall(p)
    /\ \E o \in ops, ms \in millis :
         /\ call' = [call EXCEPT ![p] = [NoCall EXCEPT !.op = o]]
         /\ loc' = [loc EXCEPT ![p] = [InitLoc EXCEPT !.ms = ms, !.now = NowBase(ms)]]
    /\ pc' = [pc EXCEPT ![p] = "id_read"]
    /\ ret' = [ret EXCEPT ![p] = NoRet]
    /\ UNCHANGED mu

\* NewID returns id: to the caller of the package, or into NewStringID.
IDReturn(p, id) ==
    /\ pc' = [pc EXCEPT ![p] = "done"]
    /\ UNCHANGED loc
    /\ IF call[p].op = "NewStringID"
         THEN ret' = [ret EXCEPT ![p] =
                [NoRet EXCEPT !.int = id, !.bytes = FormatInt(id, 16)]]
         ELSE ret' = [ret EXCEPT ![p] = [NoRet EXCEPT !.int = id]]

\* now + int64(binary.LittleEndian.Uint64(buf[:]) % 1000000)
IDSecure(now, u) == Wrap(now + ToInt64(u % IDScale))

\* now + defaultRand.Int63()%1000000
IDFromFallback(now, fb) == Wrap(now + GoRem(fb, IDScale))

IDReadOk(p, U) ==
    /\ At(p, "id_read")
    /\ \E u \in U : IDReturn(p, IDSecure(loc[p].now, u))
    /\ UNCHANGED <<call, mu>>

IDReadErr(p) ==
    /\ At(p, "id_read")
    /\ CallInt63(p, "id_fb")
    /\ UNCHANGED <<call, mu, ret>>

IDFallback(p) ==
    /\ At(p, "id_fb")
    /\ IDReturn(p, IDFromFallback(loc[p].now, loc[p].fb))
    /\ UNCHANGED <<call, mu>>

-----------------------------------------------------------------------------
(* Inputs *)

Kinds == -1 .. 8
Sizes == {<< >>, <<0>>, <<-1>>, <<1>>, <<2>>, <<2, 5>>}
BytesWords == {MaxUint}
BytesNanos == {1}

IntValues == {MinInt, -1, 0, 1, 2, MaxInt}
Ranges ==
    {<< >>, <<10, 20>>, <<20, 10>>, <<1, 2, 3>>}
    \cup {<<a>> : a \in IntValues}
    \cup {<<a, b>> : a \in IntValues, b \in IntValues}
IntDraws == {0, 1}
Words == {0, 999999, 1000000, 1999999, MaxInt + 1, MaxUint}
Nanos == {1, MaxInt}

DpLengths == {-1, 0, 1, 2}
FloatRanges ==
    {<< >>, <<5, 5>>, <<10, 20>>, <<20, 10>>, <<0>>, <<3>>, <<-3>>,
     <<-2, 2>>, <<MinInt, MaxInt>>, <<MaxInt, 0>>}
FloatDraws == {0, 5}

Millis == {0, 1, MaxMilli}
IDWords == {0, 1999999, MaxUint}
IDNanos == {1}

Times ==
    [year : {1970, 2026}, month : {1, 12}, day : {1, 31}, hour : {0, 23},
     minute : {0, 59}, second : {0, 59},
     nano : {0, 999, 1000, 123456789, 999999999}]
SeriesDraws == {0, 120, 345678}

ConcSizes == {<<1>>}
ConcKinds == {5}
ConcRanges == {<< >>, <<-1>>}
ConcDpLengths == {1}
ConcFloatRanges == {<<1, 2>>, <<5, 5>>}
ConcMillis == {1}
ConcTimes ==
    {[year |-> 2026, month |-> 11, day |-> 1, hour |-> 9, minute |-> 5,
      second |-> 7, nano |-> 123456789]}
ConcWords == {MaxUint}
ConcNanos == {1}

-----------------------------------------------------------------------------
(* Specifications *)

Int63Steps(p, U, N) ==
    \/ I63Lock(p)
    \/ I63ReadOk(p, U)
    \/ I63ReadErr(p, N)
    \/ I63Return(p)

BytesSteps(p, D) ==
    \/ BytesReadOk(p, D)
    \/ BytesReadErr(p)
    \/ BytesFallback(p)

IntSteps(p, D) ==
    \/ IntReadOk(p, D)
    \/ IntReadErr(p)
    \/ IntFallback(p)

FloatSteps(p, D) ==
    \/ FloatDpReadOk(p, D)
    \/ FloatDpReadErr(p)
    \/ FloatDpFallback(p)
    \/ FloatIntReadOk(p, D)
    \/ FloatIntReadErr(p)
    \/ FloatIntFallback(p)

IDSteps(p, U) ==
    \/ IDReadOk(p, U)
    \/ IDReadErr(p)
    \/ IDFallback(p)

\* One caller of Bytes and String.
NextBytes ==
    \E p \in SeqProcs :
        \/ CallBytes(p, {"Bytes", "String"}, Kinds, Sizes)
        \/ BytesSteps(p, {})
        \/ Int63Steps(p, BytesWords, BytesNanos)
        \/ Finish(p)

SpecBytes == Init /\ [][NextBytes]_vars

\* One caller of Int.
NextInt ==
    \E p \in SeqProcs :
        \/ CallInt(p, Ranges)
        \/ IntSteps(p, IntDraws)
        \/ Int63Steps(p, Words, Nanos)
        \/ Finish(p)

SpecInt == Init /\ [][NextInt]_vars

\* One caller of Float64.
NextFloat ==
    \E p \in SeqProcs :
        \/ CallFloat64(p, DpLengths, FloatRanges)
        \/ FloatSteps(p, FloatDraws)
        \/ Int63Steps(p, Words, Nanos)
        \/ Finish(p)

SpecFloat == Init /\ [][NextFloat]_vars

\* Concurrent callers of NewID.
NextID ==
    \E p \in Procs :
        \/ CallNewID(p, {"NewID"}, Millis)
        \/ IDSteps(p, IDWords)
        \/ Int63Steps(p, IDWords, IDNanos)
        \/ Finish(p)

SpecID == Init /\ [][NextID]_vars

\* One caller of NewSeriesID.
NextSeries ==
    \E p \in SeqProcs :
        \/ CallNewSeriesID(p, Times)
        \/ IntSteps(p, SeriesDraws)
        \/ Int63Steps(p, Words, Nanos)
        \/ Finish(p)

SpecSeries == Init /\ [][NextSeries]_vars

\* One step of goroutine p inside a call of any public operation.
Step(p) ==
    \/ BytesSteps(p, {})
    \/ IntSteps(p, {})
    \/ FloatSteps(p, {})
    \/ IDSteps(p, ConcWords)
    \/ I63ReadOk(p, ConcWords)
    \/ I63ReadErr(p, ConcNanos)
    \/ I63Return(p)

\* Concurrent callers of every public operation.
NextConc ==
    \E p \in Procs :
        \/ CallBytes(p, {"Bytes", "String"}, ConcKinds, ConcSizes)
        \/ CallInt(p, ConcRanges)
        \/ CallFloat64(p, ConcDpLengths, ConcFloatRanges)
        \/ CallNewID(p, {"NewID", "NewStringID"}, ConcMillis)
        \/ CallNewSeriesID(p, ConcTimes)
        \/ Step(p)
        \/ I63Lock(p)
        \/ Finish(p)

SpecConc == Init /\ [][NextConc]_vars

\* A goroutine inside a call keeps running, and sync.Mutex hands the lock to a
\* waiter that keeps asking for it.
FairConc ==
    /\ SpecConc
    /\ \A p \in Procs : WF_vars(Step(p)) /\ SF_vars(I63Lock(p))

-----------------------------------------------------------------------------
(* Properties *)

Done(p, ops) == pc[p] = "done" /\ call[p].op \in ops

Ended(p, ops) == pc[p] \in {"done", "panic"} /\ call[p].op \in ops

Range(f) == {f[i] : i \in DOMAIN f}

\* The bounds a call resolves to, as the documentation states them.
Lo(rangeSize) ==
    IF Len(rangeSize) = 0 THEN 0
    ELSE IF Len(rangeSize) = 1 THEN 0
    ELSE IF rangeSize[1] < rangeSize[2] THEN rangeSize[1] ELSE rangeSize[2]

Hi(rangeSize) ==
    IF Len(rangeSize) = 0 THEN 100
    ELSE IF Len(rangeSize) = 1 THEN rangeSize[1]
    ELSE IF rangeSize[1] < rangeSize[2] THEN rangeSize[2] ELSE rangeSize[1]

\* C1: every call Int(a, b), in either order of the bounds, and every call
\* Int() returns a value v with min <= v <= max (0 <= v <= 100 for Int()).
C1_IntInRange ==
    \A p \in Procs :
        (Ended(p, {"Int"}) /\ Len(call[p].rangeSize) # 1)
            => /\ pc[p] = "done"
               /\ Lo(call[p].rangeSize) <= ret[p].int
               /\ ret[p].int <= Hi(call[p].rangeSize)

\* Whenever max-min+1 fits the int type, Int returns a value within the bounds.
IntInRangeWhenSpanFits ==
    \A p \in Procs :
        (Ended(p, {"Int"}) /\ Len(call[p].rangeSize) # 1
           /\ Hi(call[p].rangeSize) - Lo(call[p].rangeSize) < MaxInt)
            => /\ pc[p] = "done"
               /\ Lo(call[p].rangeSize) <= ret[p].int
               /\ ret[p].int <= Hi(call[p].rangeSize)

\* C2: Bytes and String return exactly n characters for a supplied length
\* n > 0, and exactly 6 when the length is omitted or not positive.
C2_Length ==
    \A p \in Procs :
        Done(p, {"Bytes", "String"})
            => Len(ret[p].bytes) =
                 IF call[p].size # << >> /\ call[p].size[1] > 0
                   THEN call[p].size[1]
                   ELSE 6

C2_Witness ==
    \E p \in Procs :
        /\ Done(p, {"Bytes", "String"})
        /\ call[p].size = <<-1>>
        /\ Len(ret[p].bytes) = 6

Digits == [i \in 1 .. 10 |-> 47 + i]
Uppers == [i \in 1 .. 26 |-> 64 + i]
Lowers == [i \in 1 .. 26 |-> 96 + i]

\* The character set of selector s: the categories whose bit is set, in the
\* order digits, uppercase, lowercase; all 62 characters for s outside 1 .. 7.
CharsetOf(s) ==
    IF s < 1 \/ s > 7 THEN Digits \o Uppers \o Lowers
    ELSE (IF s \in {1, 3, 5, 7} THEN Digits ELSE << >>)
         \o (IF s \in {2, 3, 6, 7} THEN Uppers ELSE << >>)
         \o (IF s \in {4, 5, 6, 7} THEN Lowers ELSE << >>)

\* C3: the character set Bytes and String draw from is the resolved set of
\* the selector, and every character emitted is a member of it, on the
\* secure path and on the fallback path.
C3_Charset ==
    \A p \in Procs :
        (pc[p] # "idle" /\ call[p].op \in {"Bytes", "String"})
            => /\ loc[p].chars = CharsetOf(call[p].kind)
               /\ Range(loc[p].result) \subseteq Range(CharsetOf(call[p].kind))
               /\ Range(ret[p].bytes) \subseteq Range(CharsetOf(call[p].kind))

C3_Witness ==
    \E p \in Procs :
        /\ Done(p, {"Bytes", "String"})
        /\ call[p].kind = 5
        /\ loc[p].cont = "bytes_fb"
        /\ \E i, j \in DOMAIN ret[p].bytes :
             ret[p].bytes[i] \in 48 .. 57 /\ ret[p].bytes[j] \in 97 .. 122

\* C4: no public operation panics, whatever its arguments and whether or not
\* the secure source fails.
C4_NoPanic == \A p \in Procs : pc[p] # "panic"

\* floor of the value whole + num/den that Float64 returns.
FloatFloor(r) == r.int + (r.num \div r.den)

\* C5: for d >= 0 and every form of the bounds, Float64 returns a value v
\* with min <= v < max+1 (stated here for the bounds that leave min <= max:
\* a single negative bound a makes [0, a] empty).
C5_FloatInRange ==
    \A p \in Procs :
        (Ended(p, {"Float64"}) /\ call[p].dpLength >= 0
           /\ Lo(call[p].rangeSize) <= Hi(call[p].rangeSize))
            => /\ pc[p] = "done"
               /\ Lo(call[p].rangeSize) <= FloatFloor(ret[p])
               /\ FloatFloor(ret[p]) < Hi(call[p].rangeSize) + 1

\* Whenever min < max and max-min fits the int type, Float64 returns a value
\* v with min <= v < max.
FloatInRangeWhenSpanFits ==
    \A p \in Procs :
        (Ended(p, {"Float64"})
           /\ Lo(call[p].rangeSize) < Hi(call[p].rangeSize)
           /\ Hi(call[p].rangeSize) - Lo(call[p].rangeSize) <= MaxInt)
            => /\ pc[p] = "done"
               /\ Lo(call[p].rangeSize) <= FloatFloor(ret[p])
               /\ FloatFloor(ret[p]) < Hi(call[p].rangeSize)
               /\ 0 <= ret[p].num /\ ret[p].num < ret[p].den

\* C6: NewID returns T*1000000 + r with T the milliseconds it read and
\* 0 <= r <= 999999, so that the ID divided by 1000000 is T.
C6_IDValue ==
    \A p \in Procs :
        Done(p, {"NewID"})
            => /\ 0 <= ret[p].int - loc[p].ms * 1000000
               /\ ret[p].int - loc[p].ms * 1000000 <= 999999
               /\ ret[p].int \div 1000000 = loc[p].ms

C6_Witness ==
    \E p \in Procs :
        /\ Done(p, {"NewID"})
        /\ loc[p].cont = "id_fb"
        /\ loc[p].ms > 0
        /\ ret[p].int = loc[p].ms * 1000000 + 999999

RECURSIVE DecVal(_)
\* The number a sequence of ASCII digits denotes.
DecVal(s) ==
    IF s = << >> THEN 0
    ELSE 10 * DecVal(SubSeq(s, 1, Len(s) - 1)) + (s[Len(s)] - 48)

Reverse(s) == [i \in 1 .. Len(s) |-> s[Len(s) + 1 - i]]

\* C7: NewSeriesID returns 26 ASCII digits: YYYYMMDDhhmmss, then the
\* microseconds within the second on 6 digits, then, in reverse order, the 6
\* digits of the number in 0 .. 999999 that Int(0, 999999) returned.
C7_SeriesFormat ==
    \A p \in Procs :
        Done(p, {"NewSeriesID"})
            => LET id == ret[p].bytes
                   t == loc[p].t
               IN /\ Len(id) = 26
                  /\ Range(id) \subseteq 48 .. 57
                  /\ DecVal(SubSeq(id, 1, 4)) = t.year
                  /\ DecVal(SubSeq(id, 5, 6)) = t.month
                  /\ DecVal(SubSeq(id, 7, 8)) = t.day
                  /\ DecVal(SubSeq(id, 9, 10)) = t.hour
                  /\ DecVal(SubSeq(id, 11, 12)) = t.minute
                  /\ DecVal(SubSeq(id, 13, 14)) = t.second
                  /\ DecVal(SubSeq(id, 15, 20)) = t.nano \div 1000
                  /\ DecVal(Reverse(SubSeq(id, 21, 26))) = loc[p].random
                  /\ 0 <= loc[p].random /\ loc[p].random <= 999999

C7_Witness ==
    \E p \in Procs :
        /\ Done(p, {"NewSeriesID"})
        /\ loc[p].random = 345678
        /\ loc[p].t.nano = 123456789
        /\ SubSeq(ret[p].bytes, 15, 26) =
             <<49, 50, 51, 52, 53, 54, 56, 55, 54, 53, 52, 51>>

InInt63(p) == pc[p] \in {"i63_read", "i63_ret"}

\* A read of crypto/rand made by a public operation itself.
CallerRead(p) ==
    pc[p] \in {"bytes_read", "int_read", "f_dp_read", "f_int_read", "id_read"}

\* A read of crypto/rand, wherever it is made.
SecureRead(p) == CallerRead(p) \/ pc[p] = "i63_read"

InCall(p) == pc[p] \notin {"idle", "done"}

MutualExclusion ==
    \A p, q \in Procs : (InInt63(p) /\ InInt63(q)) => p = q

LockOnlyInsideInt63 ==
    /\ \A p \in Procs : mu = p <=> InInt63(p)
    /\ (mu = NoProc) <=> (\A p \in Procs : ~InInt63(p))

\* C8: at most one caller at a time is inside Int63, the lock is released on
\* every return path, and every concurrent call eventually returns.
C8_CallsReturn ==
    /\ [](MutualExclusion /\ LockOnlyInsideInt63)
    /\ \A p \in Procs : InCall(p) ~> (pc[p] = "done")

\* Every concurrent call returns or ends in the panic of some call.
CallsEnd ==
    \A p \in Procs : InCall(p) ~> (pc[p] = "done" \/ Crashed)

\* C9 as stated: the lock is held only inside Int63, and no caller holds it
\* while a read of crypto/rand is in progress.
C9_NoLockDuringSecureRead ==
    /\ \A p \in Procs : mu = p => InInt63(p)
    /\ \A p \in Procs : SecureRead(p) => mu # p

\* C9 amended: the lock is held only inside Int63, and no caller holds it
\* while a public operation makes its own read of crypto/rand; the read that
\* Int63 makes is made with the lock held.
C9_LockOnlyAroundInt63Read ==
    /\ \A p \in Procs : mu = p => InInt63(p)
    /\ \A p \in Procs : CallerRead(p) => mu # p
    /\ \A p \in Procs : pc[p] = "i63_read" => mu = p

C9_Witness ==
    \E p, q \in Procs :
        /\ p # q
        /\ pc[p] = "i63_read" /\ mu = p
        /\ CallerRead(q)
        /\ loc[q].cont # "none"

\* C10: of two NewID calls, the one that read the strictly greater
\* millisecond value returns the strictly greater ID.
C10_LaterMilliGreaterID ==
    \A p, q \in Procs :
        (Done(p, {"NewID"}) /\ Done(q, {"NewID"}) /\ loc[q].ms > loc[p].ms)
            => ret[q].int > ret[p].int

C10_Witness ==
    \E p, q \in Procs :
        /\ Done(p, {"NewID"}) /\ Done(q, {"NewID"})
        /\ loc[q].ms = loc[p].ms + 1
        /\ ret[p].int = loc[p].now + 999999
        /\ ret[q].int = loc[q].now

====
